---- MODULE Spec2Model ----
(***************************************************************************)
(* Model of collatz_at_home: the WASM entry point do_gpu_collatz           *)
(* (src/src/lib.rs), the standalone entry point run and the host function  *)
(* collatz (src/src/main.rs), and the wide-integer codec they share.       *)
(*                                                                         *)
(* Numbers.  TLC's integers are 32 bits wide, so a Rust integer is kept as *)
(* a little-endian tuple of 16-bit limbs at its true width: a u128 is 8    *)
(* limbs, a u32 is 2 limbs, a u8 is a number in 0..255.  Shifts, masks,    *)
(* casts and additions are computed limb by limb, with the carries and the *)
(* truncation the Rust operators have.                                     *)
(***************************************************************************)
EXTENDS Integers, Sequences, FiniteSets, TLC

(***************************************************************************)
(* Bounds of the model                                                     *)
(***************************************************************************)
\* lib.rs:7 sets RANGE to 50_000; the model runs the same code on a batch
\* of RANGE candidates with RANGE scaled down.
RANGE == 2

\* the invocations of do_gpu_collatz that may be in flight together
Invocations == {1, 2}

(***************************************************************************)
(* Limb arithmetic                                                         *)
(***************************************************************************)
Limb == 256 * 256
LimbMax == Limb - 1
\* a u128 is 128 bits and a u32 is 32 bits, in limbs of 16 bits
U128Limbs == 128 \div 16
U32Limbs == 32 \div 16

\* the u128 whose limb i is F(i), as a tuple
Tup128(F(_)) == << F(1), F(2), F(3), F(4), F(5), F(6), F(7), F(8) >>

Zero128 == << 0, 0, 0, 0, 0, 0, 0, 0 >>
One128 == << 1, 0, 0, 0, 0, 0, 0, 0 >>
Max128 == << LimbMax, LimbMax, LimbMax, LimbMax, LimbMax, LimbMax, LimbMax, LimbMax >>

\* a small natural number as a u128 / as a u32
NatToU128(k) == << k % Limb, k \div Limb, 0, 0, 0, 0, 0, 0 >>
NatToU32(k) == << k % Limb, k \div Limb >>

\* n >> (16 * k) and n << (16 * k) on a u128 (bits shifted out are lost)
ShrLimbs(n, k) ==
    LET at(i) == IF i + k <= U128Limbs THEN n[i + k] ELSE 0
    IN Tup128(at)
ShlLimbs(n, k) ==
    LET at(i) == IF i - k >= 1 THEN n[i - k] ELSE 0
    IN Tup128(at)

\* n & 0xFFFFFFFF on a u128
AndLow32(n) ==
    LET at(i) == IF i <= U32Limbs THEN n[i] ELSE 0
    IN Tup128(at)

\* `x as u32` (truncating) and `w as u128` (zero-extending)
AsU32(n) == << n[1], n[2] >>
AsU128(w) == << w[1], w[2], 0, 0, 0, 0, 0, 0 >>

RECURSIVE BitOr(_, _)
BitOr(x, y) ==
    IF x = 0 THEN y
    ELSE IF y = 0 THEN x
    ELSE (IF x % 2 = 1 \/ y % 2 = 1 THEN 1 ELSE 0) + 2 * BitOr(x \div 2, y \div 2)

\* a | b on u128
Or128(a, b) ==
    LET at(i) == BitOr(a[i], b[i])
    IN Tup128(at)

\* a + b on u128: the wrapped sum and whether it overflowed
RECURSIVE AddCarry(_, _, _, _)
AddCarry(a, b, i, carry) ==
    IF i > U128Limbs THEN [val |-> <<>>, overflow |-> carry > 0]
    ELSE LET s == a[i] + b[i] + carry
             rest == AddCarry(a, b, i + 1, s \div Limb)
         IN [val |-> <<s % Limb>> \o rest.val, overflow |-> rest.overflow]
Add128(a, b) == AddCarry(a, b, 1, 0)

\* a * m + d on u128 for a small m and d: the wrapped result and the overflow
RECURSIVE MulAddCarry(_, _, _, _)
MulAddCarry(a, m, i, carry) ==
    IF i > U128Limbs THEN [val |-> <<>>, overflow |-> carry > 0]
    ELSE LET s == a[i] * m + carry
             rest == MulAddCarry(a, m, i + 1, s \div Limb)
         IN [val |-> <<s % Limb>> \o rest.val, overflow |-> rest.overflow]
MulAdd128(a, m, d) == MulAddCarry(a, m, 1, d)

\* a < b on u128
RECURSIVE LtFrom(_, _, _)
LtFrom(a, b, i) ==
    IF i = 0 THEN FALSE
    ELSE IF a[i] # b[i] THEN a[i] < b[i]
    ELSE LtFrom(a, b, i - 1)
Lt128(a, b) == LtFrom(a, b, U128Limbs)

\* n / 2 on u128
Half128(n) ==
    LET at(i) == (n[i] \div 2)
                 + (IF i < U128Limbs THEN (n[i + 1] % 2) * (Limb \div 2) ELSE 0)
    IN Tup128(at)

(***************************************************************************)
(* Wide-Integer Codec (lib.rs:9-35, main.rs:5-31)                          *)
(***************************************************************************)
u128_to_u32_array_swapped(n) ==
    << AsU32(AndLow32(ShrLimbs(n, 6))),
       AsU32(AndLow32(ShrLimbs(n, 4))),
       AsU32(AndLow32(ShrLimbs(n, 2))),
       AsU32(AndLow32(n)) >>

u128_to_u32_array(n) ==
    << AsU32(AndLow32(n)),
       AsU32(AndLow32(ShrLimbs(n, 2))),
       AsU32(AndLow32(ShrLimbs(n, 4))),
       AsU32(AndLow32(ShrLimbs(n, 6))) >>

u32_array_to_u128(parts) ==
    Or128(Or128(Or128(AsU128(parts[1]),
                      ShlLimbs(AsU128(parts[2]), 2)),
                ShlLimbs(AsU128(parts[3]), 4)),
          ShlLimbs(AsU128(parts[4]), 6))

\* u32::to_le_bytes
to_le_bytes(part) ==
    << part[1] % 256, part[1] \div 256, part[2] % 256, part[2] \div 256 >>

\* bytes[i*4 .. (i+1)*4].copy_from_slice(&part.to_le_bytes()) for i in 0..4
u32_array_to_bytes(parts) ==
    [k \in 1..16 |-> to_le_bytes(parts[((k - 1) \div 4) + 1])[((k - 1) % 4) + 1]]

\* bytemuck::cast_slice::<u8, u32> on a little-endian target (wasm32, x86):
\* word k is made of bytes 4k .. 4k+3, lowest byte first
cast_slice(bytes) ==
    [k \in 1..(Len(bytes) \div 4) |->
        << bytes[4 * k - 3] + 256 * bytes[4 * k - 2],
           bytes[4 * k - 1] + 256 * bytes[4 * k] >>]

(***************************************************************************)
(* str::parse::<u128> (lib.rs:106).  A string is a tuple of characters.    *)
(* The parse fails on the empty string, on a lone sign, on a character     *)
(* that is no decimal digit (a leading '+' is accepted, '-' is not), and   *)
(* when checked_mul(10) / checked_add(digit) overflows 128 bits.           *)
(***************************************************************************)
DigitChars == <<"0", "1", "2", "3", "4", "5", "6", "7", "8", "9">>

DigitVal(c) ==
    IF \E d \in 1..10 : DigitChars[d] = c
    THEN (CHOOSE d \in 1..10 : DigitChars[d] = c) - 1
    ELSE -1

ParseErr == [ok |-> FALSE, val |-> Zero128]

RECURSIVE ParseDigits(_, _, _)
ParseDigits(chars, i, acc) ==
    IF i > Len(chars) THEN [ok |-> TRUE, val |-> acc]
    ELSE LET d == DigitVal(chars[i])
         IN IF d < 0 THEN ParseErr
            ELSE LET r == MulAdd128(acc, 10, d)
                 IN IF r.overflow THEN ParseErr
                    ELSE ParseDigits(chars, i + 1, r.val)

parse_u128(s) ==
    IF Len(s) = 0 THEN ParseErr
    ELSE IF Len(s) = 1 /\ (s[1] = "+" \/ s[1] = "-") THEN ParseErr
    ELSE ParseDigits(IF s[1] = "+" THEN Tail(s) ELSE s, 1, Zero128)

(***************************************************************************)
(* The start strings the callers of the model pass in                      *)
(***************************************************************************)
\* the decimal digits of 2^128 without its last two digits, "56"
Pow128Prefix ==
    <<"3", "4", "0", "2", "8", "2", "3", "6", "6", "9", "2", "0", "9", "3",
      "8", "4", "6", "3", "4", "6", "3", "3", "7", "4", "6", "0", "7", "4",
      "3", "1", "7", "6", "8", "2", "1", "1", "4">>

\* the decimal string of 2^128 - k, for k in 0..56
Pow128Minus(k) ==
    Pow128Prefix \o <<DigitChars[((56 - k) \div 10) + 1], DigitChars[((56 - k) % 10) + 1]>>

S_one == <<"1">>
S_plus6 == <<"+", "6">>
S_7 == <<"7">>
S_abc == <<"a", "b", "c">>
S_empty == <<>>
\* 2^128 itself: one more than a u128 holds
S_too_big == Pow128Minus(0)
\* the largest start whose whole batch fits: start + RANGE = 2^128
S_last_batch == Pow128Minus(RANGE)

StartStrings == {S_one, S_plus6, S_7, S_abc, S_empty, S_too_big, S_last_batch}

(***************************************************************************)
(* The compute kernel (add.wgsl, not among the sources; its contract is    *)
(* the specification's section 6): for input record i it writes a 32-byte  *)
(* output record [u32 steps][4 x u32 max_value][12 bytes unused].          *)
(***************************************************************************)
\* one step of the trace: a value of 1 (or 0, which has no trace) is left
\* as it is
CollatzStep(t) ==
    IF t.v = One128 \/ t.v = Zero128 THEN t
    ELSE LET nx == IF t.v[1] % 2 = 0 THEN Half128(t.v) ELSE MulAdd128(t.v, 3, 1).val
         IN [v |-> nx, steps |-> t.steps + 1,
             max |-> IF Lt128(t.max, nx) THEN nx ELSE t.max]

\* up to 2^k steps of the trace, stopping at 1
KernelDepth == 11
RECURSIVE CollatzRun(_, _)
CollatzRun(t, k) ==
    IF t.v = One128 \/ t.v = Zero128 THEN t
    ELSE IF k = 0 THEN CollatzStep(t)
    ELSE CollatzRun(CollatzRun(t, k - 1), k - 1)

CollatzTrace(v, steps, max) ==
    LET t == CollatzRun([v |-> v, steps |-> steps, max |-> max], KernelDepth)
    IN [steps |-> t.steps, max |-> t.max]

KernelRecord(v) ==
    LET t == CollatzTrace(v, 0, v)
    IN [steps |-> NatToU32(t.steps), max_value |-> t.max]

\* what the 12 unused bytes of the records may hold after a dispatch: the
\* zeroes the buffer was created with, or whatever the store of the
\* 32-byte structure leaves there in this dispatch
PadZero == [k \in 1..12 |-> 0]
PadJunk == [k \in 1..12 |-> 160 + k]
PadPatterns == {PadZero, PadJunk}

\* input record i (0-based) of the bound input buffer, as the shader reads it
InputRecord(bytes, i) ==
    u32_array_to_u128(cast_slice(SubSeq(bytes, 16 * i + 1, 16 * i + 16)))

KernelRecordBytes(v, pad) ==
    LET r == KernelRecord(v)
    IN to_le_bytes(r.steps) \o u32_array_to_bytes(u128_to_u32_array(r.max_value)) \o pad

\* the records written by `threads` shader invocations: thread i handles
\* record i when the input has one
RECURSIVE KernelOutputFrom(_, _, _, _)
KernelOutputFrom(inBytes, pad, i, threads) ==
    IF i >= Len(inBytes) \div 16 \/ i >= threads THEN <<>>
    ELSE KernelRecordBytes(InputRecord(inBytes, i), pad)
         \o KernelOutputFrom(inBytes, pad, i + 1, threads)

KernelOutput(inBytes, pad, threads) == KernelOutputFrom(inBytes, pad, 0, threads)

(***************************************************************************)
(* State of the invocations of do_gpu_collatz (lib.rs:58-234)              *)
(***************************************************************************)
VARIABLES
    codec,            \* the codec exercised on its own (CodecSpec)
    overflow_checks,  \* the build: "on" when `n + RANGE` panics on overflow,
                      \* "off" when it wraps, "unknown" until an overflow shows it
    pc,               \* where each invocation is
    running,          \* the invocation that holds the (single) thread, or 0
    start_n,          \* the argument
    adapter,          \* an adapter was requested / obtained
    device,           \* a device and queue were requested / obtained
    n,                \* the parsed start
    test_numbers,     \* lib.rs:112
    input_data,       \* lib.rs:115
    input_buffer,     \* handles: indices into buffers, 0 when not created
    output_buffer,
    staging_buffer,
    buffers,          \* every buffer created on a device so far
    bind_group,       \* the buffers bound at binding 0 and binding 1
    commands,         \* the command stream recorded by the encoder
    submits,          \* number of queue.submit calls
    channel,          \* the flume channel between map callback and receiver
    recv,             \* what recv_async yielded
    data,             \* the mapped view (BufferView) is alive
    results,          \* the view as u32 words
    decoded,          \* what the decode loop computed for each candidate
    vec_results,      \* lib.rs:228
    outcome,          \* what the call returned
    touched,          \* the buffers each invocation used in the last step
    pipeline,         \* the compute pipeline of each invocation: "none",
                      \* "valid", or "invalid" when the shader module or the
                      \* pipeline failed validation
    trace,            \* the stages each invocation has executed, in order
    wg,               \* the workgroup count computed on its own (WorkgroupSpec)
    cz,               \* the host function collatz of main.rs (CollatzSpec)
    rn                \* the standalone entry point run of main.rs

vars == << codec, overflow_checks, pc, running, start_n, adapter, device, n,
           test_numbers, input_data, input_buffer, output_buffer,
           staging_buffer, buffers, bind_group, commands, submits, channel,
           recv, data, results, decoded, vec_results, outcome, touched,
           pipeline, trace, wg, cz, rn >>

\* the parts of the state one group of steps leaves alone
hostVars == << n, test_numbers, input_data >>
handleVars == << input_buffer, output_buffer, staging_buffer >>
gpuVars == << buffers, bind_group, commands, submits >>
mapVars == << channel, recv >>
readVars == << data, results, decoded, vec_results >>

NoOutcome == [kind |-> "None", msg |-> "", value |-> <<>>]
Ok(v) == [kind |-> "Ok", msg |-> "", value |-> v]
Err(m) == [kind |-> "Err", msg |-> m, value |-> <<>>]
Panic(m) == [kind |-> "Panic", msg |-> m, value |-> <<>>]

\* the channel: the sender is alive (open), the messages in it, and what
\* became of the callback that owns the sender ("pending", the result it
\* was called with, or "dropped")
NoChannel == [open |-> FALSE, msgs |-> <<>>, callback |-> "none"]

CodecOff == [pc |-> "off", v |-> Zero128, words |-> <<>>, bytes |-> <<>>,
             back |-> Zero128, back_bytes |-> Zero128]

\* no invocation of do_gpu_collatz has started
IdleInvocations ==
    /\ overflow_checks = "unknown"
    /\ pc = [p \in Invocations |-> "idle"]
    /\ running = 0
    /\ start_n = [p \in Invocations |-> <<>>]
    /\ adapter = [p \in Invocations |-> "none"]
    /\ device = [p \in Invocations |-> "none"]
    /\ n = [p \in Invocations |-> Zero128]
    /\ test_numbers = [p \in Invocations |-> <<>>]
    /\ input_data = [p \in Invocations |-> <<>>]
    /\ input_buffer = [p \in Invocations |-> 0]
    /\ output_buffer = [p \in Invocations |-> 0]
    /\ staging_buffer = [p \in Invocations |-> 0]
    /\ buffers = <<>>
    /\ bind_group = [p \in Invocations |-> <<0, 0>>]
    /\ commands = [p \in Invocations |-> <<>>]
    /\ submits = [p \in Invocations |-> 0]
    /\ channel = [p \in Invocations |-> NoChannel]
    /\ recv = [p \in Invocations |-> "none"]
    /\ data = [p \in Invocations |-> FALSE]
    /\ results = [p \in Invocations |-> <<>>]
    /\ decoded = [p \in Invocations |-> <<>>]
    /\ vec_results = [p \in Invocations |-> <<>>]
    /\ outcome = [p \in Invocations |-> NoOutcome]
    /\ touched = {}
    /\ pipeline = [p \in Invocations |-> "none"]
    /\ trace = [p \in Invocations |-> <<>>]

\* the parts of the model that a specification does not exercise
WgOff == [pc |-> "off", len |-> <<0, 0>>, outcome |-> "none",
          num_workgroups |-> <<0, 0>>]
CzOff == [pc |-> "off", arg |-> 0, n |-> Zero128, steps |-> Zero128,
          max |-> Zero128, outcome |-> "none", visited |-> <<>>]
RunOff == [pc |-> "off", adapter |-> "none", device |-> "none",
           test_numbers |-> <<>>, input_data |-> <<>>, buffers |-> <<>>,
           input_buffer |-> 0, output_buffer |-> 0, staging_buffer |-> 0,
           pipeline |-> "none", bind_group |-> <<0, 0>>, commands |-> <<>>,
           submits |-> 0, data |-> FALSE, results |-> <<>>, output |-> <<>>,
           file |-> <<>>, outcome |-> NoOutcome, trace |-> <<>>]

Init ==
    /\ codec = CodecOff
    /\ wg = WgOff
    /\ cz = CzOff
    /\ rn = RunOff
    /\ IdleInvocations

\* the stage e is executed by p
Log(p, e) == trace' = [trace EXCEPT ![p] = Append(@, e)]

\* the call returns: the thread is free again
Return(p, o) ==
    /\ pc' = [pc EXCEPT ![p] = "done"]
    /\ outcome' = [outcome EXCEPT ![p] = o]
    /\ running' = 0

\* lib.rs:58-73: the call starts, creates the instance, requests an adapter
\* and suspends on the request
Call(p) ==
    /\ Log(p, "request_adapter")
    /\ pc[p] = "idle"
    /\ running = 0
    /\ \E s \in StartStrings : start_n' = [start_n EXCEPT ![p] = s]
    /\ adapter' = [adapter EXCEPT ![p] = "requested"]
    /\ pc' = [pc EXCEPT ![p] = "await_adapter"]
    /\ touched' = {}
    /\ UNCHANGED << codec, wg, cz, rn, pipeline, overflow_checks, running, device, outcome,
                    hostVars, handleVars, gpuVars, mapVars, readVars >>

\* lib.rs:75-94: the adapter request resolves; on Ok the device is
\* requested and the call suspends again
AdapterResolved(p) ==
    /\ Log(p, "adapter")
    /\ pc[p] = "await_adapter"
    /\ running = 0
    /\ touched' = {}
    /\ \/ /\ adapter' = [adapter EXCEPT ![p] = "ok"]
          /\ device' = [device EXCEPT ![p] = "requested"]
          /\ pc' = [pc EXCEPT ![p] = "await_device"]
          /\ UNCHANGED << running, outcome >>
       \/ /\ adapter' = [adapter EXCEPT ![p] = "failed"]
          /\ Return(p, Err("No GPU adapter found"))
          /\ UNCHANGED device
    /\ UNCHANGED << codec, wg, cz, rn, pipeline, overflow_checks, start_n,
                    hostVars, handleVars, gpuVars, mapVars, readVars >>

\* lib.rs:92-103: the device request resolves
DeviceResolved(p) ==
    /\ Log(p, "device")
    /\ pc[p] = "await_device"
    /\ running = 0
    /\ touched' = {}
    /\ \/ /\ device' = [device EXCEPT ![p] = "ok"]
          /\ pc' = [pc EXCEPT ![p] = "parse"]
          /\ running' = p
          /\ UNCHANGED outcome
       \/ /\ device' = [device EXCEPT ![p] = "failed"]
          /\ Return(p, Err("request_device failed"))
    /\ UNCHANGED << codec, wg, cz, rn, pipeline, overflow_checks, start_n, adapter,
                    hostVars, handleVars, gpuVars, mapVars, readVars >>

\* lib.rs:105-110: parse start n
ParseStart_unwrap_or_default(p) ==
    /\ Log(p, "parse")
    /\ pc[p] = "parse"
    /\ running = p
    /\ touched' = {}
    /\ n' = [n EXCEPT ![p] = parse_u128(start_n[p]).val]
    /\ pc' = [pc EXCEPT ![p] = "range"]
    /\ UNCHANGED << codec, wg, cz, rn, pipeline, overflow_checks, running, outcome, start_n, adapter, device,
                    test_numbers, input_data, handleVars, gpuVars, mapVars, readVars >>

ParseStart(p) ==
    /\ Log(p, "parse")
    /\ pc[p] = "parse"
    /\ running = p
    /\ touched' = {}
    /\ LET r == parse_u128(start_n[p])
       IN IF r.ok
          THEN /\ n' = [n EXCEPT ![p] = r.val]
               /\ pc' = [pc EXCEPT ![p] = "range"]
               /\ UNCHANGED << running, outcome >>
          ELSE /\ Return(p, Err("Could not parse n"))
               /\ UNCHANGED n
    /\ UNCHANGED << codec, wg, cz, rn, pipeline, overflow_checks, start_n, adapter, device, test_numbers,
                    input_data, handleVars, gpuVars, mapVars, readVars >>

\* (lo..hi).collect(): empty when hi <= lo
RECURSIVE RangeCollect(_, _)
RangeCollect(lo, hi) ==
    IF ~Lt128(lo, hi) THEN <<>>
    ELSE <<lo>> \o RangeCollect(Add128(lo, One128).val, hi)

\* lib.rs:112: (n..n + RANGE).collect().  `n + RANGE` overflows when
\* n > 2^128 - 1 - RANGE: a build with overflow checks panics there, a
\* build without them wraps the end of the range around.
BuildRange(p) ==
    /\ Log(p, "range")
    /\ pc[p] = "range"
    /\ running = p
    /\ touched' = {}
    /\ LET end == Add128(n[p], NatToU128(RANGE))
       IN \E build \in {"on", "off"} :
            /\ overflow_checks \in {"unknown", build}
            /\ overflow_checks' = IF end.overflow THEN build ELSE overflow_checks
            /\ IF end.overflow /\ build = "on"
               THEN /\ Return(p, Panic("attempt to add with overflow"))
                    /\ UNCHANGED test_numbers
               ELSE /\ test_numbers' = [test_numbers EXCEPT ![p] = RangeCollect(n[p], end.val)]
                    /\ pc' = [pc EXCEPT ![p] = "encode"]
                    /\ UNCHANGED << running, outcome >>
    /\ UNCHANGED << codec, wg, cz, rn, pipeline, start_n, adapter, device, n,
                    input_data, handleVars, gpuVars, mapVars, readVars >>

\* the records of the candidates, last candidate first
RECURSIVE FlatMapEncode_reversed(_)
FlatMapEncode_reversed(nums) ==
    IF nums = <<>> THEN <<>>
    ELSE FlatMapEncode_reversed(Tail(nums)) \o u32_array_to_bytes(u128_to_u32_array(Head(nums)))

\* test_numbers.iter().flat_map(|&n| u32_array_to_bytes(&u128_to_u32_array(n)))
RECURSIVE FlatMapEncode(_)
FlatMapEncode(nums) ==
    IF nums = <<>> THEN <<>>
    ELSE u32_array_to_bytes(u128_to_u32_array(Head(nums))) \o FlatMapEncode(Tail(nums))

\* lib.rs:114-118
EncodeInput(p) ==
    /\ Log(p, "encode")
    /\ pc[p] = "encode"
    /\ running = p
    /\ touched' = {}
    /\ input_data' = [input_data EXCEPT ![p] = FlatMapEncode(test_numbers[p])]
    /\ pc' = [pc EXCEPT ![p] = "alloc"]
    /\ UNCHANGED << codec, wg, cz, rn, pipeline, overflow_checks, running, start_n, adapter, device, n,
                    test_numbers, outcome, handleVars, gpuVars, mapVars, readVars >>

\* a buffer as wgpu creates it: zero-filled unless created with contents
NewBuffer(p, label, contents) ==
    [owner |-> p, label |-> label, data |-> contents, map |-> "Idle"]

Zeroes(size) == [k \in 1..size |-> 0]

\* device.create_buffer_init / device.create_buffer hand out a new buffer
\* at every call (lib.rs:120, 129, 136)
AllocIds_shared(p) == <<1, 2, 3>>

AllocIds(p) == <<Len(buffers) + 1, Len(buffers) + 2, Len(buffers) + 3>>

\* lib.rs:126-127: 20 bytes of record, aligned to 32 bytes
OutputSize_packed(len) == len * 20

OutputSize(len) == len * 32

\* lib.rs:120-141: the input, output and staging buffers
AllocBuffers(p) ==
    /\ Log(p, "alloc")
    /\ pc[p] = "alloc"
    /\ running = p
    /\ LET ids == AllocIds(p)
           output_size == OutputSize(Len(test_numbers[p]))
           made == << NewBuffer(p, "Input Buffer", input_data[p]),
                      NewBuffer(p, "Output Buffer", Zeroes(output_size)),
                      NewBuffer(p, "Staging Buffer", Zeroes(output_size)) >>
           top == IF ids[3] > Len(buffers) THEN ids[3] ELSE Len(buffers)
       IN /\ buffers' = [b \in 1..top |->
                            IF \E j \in 1..3 : ids[j] = b
                            THEN made[CHOOSE j \in 1..3 : ids[j] = b]
                            ELSE buffers[b]]
          /\ input_buffer' = [input_buffer EXCEPT ![p] = ids[1]]
          /\ output_buffer' = [output_buffer EXCEPT ![p] = ids[2]]
          /\ staging_buffer' = [staging_buffer EXCEPT ![p] = ids[3]]
          /\ touched' = {<<p, ids[1]>>, <<p, ids[2]>>, <<p, ids[3]>>}
    /\ pc' = [pc EXCEPT ![p] = "pipeline"]
    /\ UNCHANGED << codec, wg, cz, rn, pipeline, overflow_checks, running, start_n, adapter, device, outcome,
                    hostVars, bind_group, commands, submits, mapVars, readVars >>

\* lib.rs:143-171: shader module, compute pipeline, and the bind group:
\* binding 0 is the input buffer, binding 1 the output buffer.
\* create_shader_module and create_compute_pipeline return the objects,
\* not a Result: when the shader does not compile or the pipeline fails
\* validation the browser reports the error to the device's error sink
\* and hands back invalid objects, and the function goes on with them.
\* The shader source is fixed (include_str!), so all invocations in one
\* browser see the same outcome.
BuildPipeline(p) ==
    /\ Log(p, "pipeline")
    /\ pc[p] = "pipeline"
    /\ running = p
    /\ \/ /\ \A q \in Invocations : pipeline[q] # "invalid"
          /\ pipeline' = [pipeline EXCEPT ![p] = "valid"]
       \/ /\ \A q \in Invocations : pipeline[q] # "valid"
          /\ pipeline' = [pipeline EXCEPT ![p] = "invalid"]
    /\ bind_group' = [bind_group EXCEPT ![p] = <<input_buffer[p], output_buffer[p]>>]
    /\ touched' = {<<p, input_buffer[p]>>, <<p, output_buffer[p]>>}
    /\ pc' = [pc EXCEPT ![p] = "record"]
    /\ UNCHANGED << codec, wg, cz, rn, overflow_checks, running, start_n, adapter, device, outcome,
                    hostVars, handleVars, buffers, commands, submits, mapVars,
                    readVars >>

\* a + b and a - b on u32: the wrapped result and whether it overflowed
AddU32(a, b) ==
    LET lo == a[1] + b[1]
        hi == a[2] + b[2] + lo \div Limb
    IN [val |-> << lo % Limb, hi % Limb >>, overflow |-> hi >= Limb]
SubU32(a, b) ==
    LET lo == a[1] - b[1]
        borrow == IF lo < 0 THEN 1 ELSE 0
        hi == a[2] - b[2] - borrow
    IN [val |-> << (lo + Limb) % Limb, (hi + Limb) % Limb >>, overflow |-> hi < 0]
\* a / d on u32, for a small d
DivU32(a, d) ==
    << ((a[2] % d) * Limb + a[1]) \div d, a[2] \div d >>

\* lib.rs:184-185 (main.rs:106-107):
\*   (test_numbers.len() as u32 + workgroup_size - 1) / workgroup_size
\* evaluated left to right in u32
workgroup_size == 64
NumWorkgroups(len) ==
    LET sum == AddU32(len, NatToU32(workgroup_size))
        dec == SubU32(sum.val, NatToU32(1))
    IN [val |-> DivU32(dec.val, workgroup_size),
        overflow |-> sum.overflow \/ dec.overflow]

\* the stream the encoder holds after lib.rs:176-188 (main.rs:101-110):
\* one compute pass (closed at the end of its block) and the copy
CommandStream_copy_first(pl, bg, groups, out, staging, size) ==
    << [op |-> "copy_buffer_to_buffer", src |-> out, src_offset |-> 0,
        dst |-> staging, dst_offset |-> 0, size |-> size],
       [op |-> "begin_compute_pass"],
       [op |-> "set_pipeline", pipeline |-> pl],
       [op |-> "set_bind_group", index |-> 0, binding0 |-> bg[1], binding1 |-> bg[2]],
       [op |-> "dispatch_workgroups", x |-> groups, y |-> 1, z |-> 1],
       [op |-> "end_compute_pass"] >>

CommandStream(pl, bg, groups, out, staging, size) ==
    << [op |-> "begin_compute_pass"],
       [op |-> "set_pipeline", pipeline |-> pl],
       [op |-> "set_bind_group", index |-> 0, binding0 |-> bg[1], binding1 |-> bg[2]],
       [op |-> "dispatch_workgroups", x |-> groups, y |-> 1, z |-> 1],
       [op |-> "end_compute_pass"],
       [op |-> "copy_buffer_to_buffer", src |-> out, src_offset |-> 0,
        dst |-> staging, dst_offset |-> 0, size |-> size] >>

\* lib.rs:173-188: one compute pass with one dispatch, then the copy of
\* the output buffer to the staging buffer.  The u32 sum of line 185
\* panics on overflow in a build with overflow checks.
RecordCommands(p) ==
    /\ Log(p, "record")
    /\ pc[p] = "record"
    /\ running = p
    /\ touched' = {<<p, output_buffer[p]>>, <<p, staging_buffer[p]>>}
    /\ LET num_workgroups == NumWorkgroups(NatToU32(Len(test_numbers[p])))
       IN \E build \in {"on", "off"} :
            /\ overflow_checks \in {"unknown", build}
            /\ overflow_checks' = IF num_workgroups.overflow THEN build
                                  ELSE overflow_checks
            /\ IF num_workgroups.overflow /\ build = "on"
               THEN /\ Return(p, Panic("attempt to add with overflow"))
                    /\ UNCHANGED commands
               ELSE /\ commands' = [commands EXCEPT ![p] =
                          CommandStream(pipeline[p], bind_group[p], num_workgroups.val,
                                        output_buffer[p], staging_buffer[p],
                                        OutputSize(Len(test_numbers[p])))]
                    /\ pc' = [pc EXCEPT ![p] = "submit"]
                    /\ UNCHANGED << running, outcome >>
    /\ UNCHANGED << codec, wg, cz, rn, pipeline, start_n, adapter, device,
                    hostVars, handleVars, buffers, bind_group, submits, mapVars,
                    readVars >>

\* the buffers a command names
CommandBuffers(cmd) ==
    IF cmd.op = "set_bind_group" THEN {cmd.binding0, cmd.binding1}
    ELSE IF cmd.op = "copy_buffer_to_buffer" THEN {cmd.src, cmd.dst}
    ELSE {}

\* the device runs one command on the buffers; st.bound is the bind group
\* set in the pass
ExecCommand(st, cmd, pad) ==
    IF cmd.op = "set_bind_group"
    THEN [st EXCEPT !.bound = <<cmd.binding0, cmd.binding1>>]
    ELSE IF cmd.op = "dispatch_workgroups"
    THEN LET inBytes == st.bufs[st.bound[1]].data
             old == st.bufs[st.bound[2]].data
             threads == IF cmd.x[2] > 0 THEN Len(inBytes) ELSE cmd.x[1] * workgroup_size
             written == KernelOutput(inBytes, pad, threads)
         IN [st EXCEPT !.bufs[st.bound[2]].data =
                written \o SubSeq(old, Len(written) + 1, Len(old))]
    ELSE IF cmd.op = "copy_buffer_to_buffer"
    THEN [st EXCEPT !.bufs[cmd.dst].data =
             SubSeq(st.bufs[cmd.dst].data, 1, cmd.dst_offset)
             \o SubSeq(st.bufs[cmd.src].data, cmd.src_offset + 1, cmd.src_offset + cmd.size)
             \o SubSeq(st.bufs[cmd.dst].data, cmd.dst_offset + cmd.size + 1,
                       Len(st.bufs[cmd.dst].data))]
    ELSE st

RECURSIVE ExecFrom(_, _, _)
ExecFrom(st, cmds, pad) ==
    IF cmds = <<>> THEN st
    ELSE ExecFrom(ExecCommand(st, Head(cmds), pad), Tail(cmds), pad)

\* a stream that uses an invalid pipeline is rejected as a whole
ExecCommands(bufs, cmds, pad) ==
    IF \E j \in 1..Len(cmds) : cmds[j].op = "set_pipeline" /\ cmds[j].pipeline # "valid"
    THEN bufs
    ELSE ExecFrom([bufs |-> bufs, bound |-> <<0, 0>>], cmds, pad).bufs

\* lib.rs:189: queue.submit(Some(encoder.finish())); the device executes
\* the stream (eagerly: completion is only reported through the map)
Submit(p) ==
    /\ Log(p, "submit")
    /\ pc[p] = "submit"
    /\ running = p
    /\ \E pad \in PadPatterns :
          buffers' = ExecCommands(buffers, commands[p], pad)
    /\ submits' = [submits EXCEPT ![p] = @ + 1]
    /\ touched' = {<<p, b>> : b \in UNION {CommandBuffers(commands[p][j]) :
                                              j \in 1..Len(commands[p])}}
    /\ pc' = [pc EXCEPT ![p] = "map_async"]
    /\ UNCHANGED << codec, wg, cz, rn, pipeline, overflow_checks, running, start_n, adapter, device, outcome,
                    hostVars, handleVars, bind_group, commands, mapVars, readVars >>

\* lib.rs:191-197: the channel, and the map request with its callback
MapAsync(p) ==
    /\ Log(p, "map_async")
    /\ pc[p] = "map_async"
    /\ running = p
    /\ channel' = [channel EXCEPT ![p] = [open |-> TRUE, msgs |-> <<>>, callback |-> "pending"]]
    /\ buffers' = [buffers EXCEPT ![staging_buffer[p]].map = "MapRequested"]
    /\ touched' = {<<p, staging_buffer[p]>>}
    /\ pc' = [pc EXCEPT ![p] = "poll"]
    /\ UNCHANGED << codec, wg, cz, rn, pipeline, overflow_checks, running, start_n, adapter, device, outcome,
                    hostVars, handleVars, bind_group, commands, submits, recv,
                    readVars >>

\* lib.rs:195-197 with a callback that keeps the sender and sends nothing
MapCallback_forgets_send(p) ==
    /\ UNCHANGED trace
    /\ \/ pc[p] = "poll" /\ running = p
       \/ pc[p] = "await_recv" /\ running = 0
    /\ channel[p].open
    /\ buffers[staging_buffer[p]].map = "MapRequested"
    /\ \/ buffers' = [buffers EXCEPT ![staging_buffer[p]].map = "Mapped"]
       \/ buffers' = [buffers EXCEPT ![staging_buffer[p]].map = "MapFailed"]
    /\ touched' = {<<p, staging_buffer[p]>>}
    /\ UNCHANGED << codec, wg, cz, rn, pipeline, overflow_checks, pc, running, start_n,
                    adapter, device, outcome, hostVars, handleVars, bind_group,
                    commands, submits, mapVars, readVars >>

\* lib.rs:195-197 with a callback that sends Ok(()) whatever it is given
MapCallback_always_ok(p) ==
    /\ UNCHANGED trace
    /\ \/ pc[p] = "poll" /\ running = p
       \/ pc[p] = "await_recv" /\ running = 0
    /\ channel[p].open
    /\ buffers[staging_buffer[p]].map = "MapRequested"
    /\ \/ /\ buffers' = [buffers EXCEPT ![staging_buffer[p]].map = "Mapped"]
          /\ channel' = [channel EXCEPT ![p] =
                            [open |-> FALSE, msgs |-> <<"Ok">>, callback |-> "Ok"]]
       \/ /\ buffers' = [buffers EXCEPT ![staging_buffer[p]].map = "MapFailed"]
          /\ channel' = [channel EXCEPT ![p] =
                            [open |-> FALSE, msgs |-> <<"Ok">>, callback |-> "Err"]]
    /\ touched' = {<<p, staging_buffer[p]>>}
    /\ UNCHANGED << codec, wg, cz, rn, pipeline, overflow_checks, pc, running, start_n,
                    adapter, device, outcome, hostVars, handleVars, bind_group,
                    commands, submits, recv, readVars >>

\* The pending map completes and the callback of lib.rs:195-197 runs
\* (inside device.poll on a native backend, from the event loop while the
\* call is suspended in the browser): it sends the map result; or the
\* callback is dropped without being called, which drops the sender.
MapCallback(p) ==
    /\ UNCHANGED trace
    /\ \/ pc[p] = "poll" /\ running = p
       \/ pc[p] = "await_recv" /\ running = 0
    /\ channel[p].open
    /\ buffers[staging_buffer[p]].map = "MapRequested"
    /\ \/ /\ buffers' = [buffers EXCEPT ![staging_buffer[p]].map = "Mapped"]
          /\ channel' = [channel EXCEPT ![p] =
                            [open |-> FALSE, msgs |-> <<"Ok">>, callback |-> "Ok"]]
       \/ /\ buffers' = [buffers EXCEPT ![staging_buffer[p]].map = "MapFailed"]
          /\ channel' = [channel EXCEPT ![p] =
                            [open |-> FALSE, msgs |-> <<"Err">>, callback |-> "Err"]]
       \/ /\ buffers' = [buffers EXCEPT ![staging_buffer[p]].map = "MapFailed"]
          /\ channel' = [channel EXCEPT ![p] =
                            [open |-> FALSE, msgs |-> <<>>, callback |-> "dropped"]]
    /\ touched' = {<<p, staging_buffer[p]>>}
    /\ UNCHANGED << codec, wg, cz, rn, pipeline, overflow_checks, pc, running, start_n, adapter, device,
                    outcome, hostVars, handleVars, bind_group, commands, submits,
                    recv, readVars >>

\* lib.rs:199-205: device.poll(wait_indefinitely()).unwrap() returns (a
\* wait without a timeout reports no error), then the call suspends on
\* recv_async
Poll(p) ==
    /\ Log(p, "poll")
    /\ pc[p] = "poll"
    /\ running = p
    /\ pc' = [pc EXCEPT ![p] = "await_recv"]
    /\ running' = 0
    /\ touched' = {}
    /\ UNCHANGED << codec, wg, cz, rn, pipeline, overflow_checks, start_n, adapter, device, outcome,
                    hostVars, handleVars, gpuVars, mapVars, readVars >>

\* lib.rs:203-207: recv_async resolves with the message, or with a channel
\* error once the sender is gone and nothing was sent; both errors return
Recv_unchecked(p) ==
    /\ Log(p, "recv")
    /\ pc[p] = "await_recv"
    /\ running = 0
    /\ channel[p].msgs # <<>> \/ ~channel[p].open
    /\ touched' = {}
    /\ recv' = [recv EXCEPT ![p] =
                  IF channel[p].msgs = <<>> THEN "ChanErr"
                  ELSE IF channel[p].msgs[1] = "Ok" THEN "Ok" ELSE "MapErr"]
    /\ channel' = [channel EXCEPT ![p].msgs = <<>>]
    /\ pc' = [pc EXCEPT ![p] = "read"]
    /\ running' = p
    /\ UNCHANGED << codec, wg, cz, rn, pipeline, overflow_checks, start_n, adapter, device, outcome,
                    hostVars, handleVars, gpuVars, readVars >>

Recv(p) ==
    /\ Log(p, "recv")
    /\ pc[p] = "await_recv"
    /\ running = 0
    /\ channel[p].msgs # <<>> \/ ~channel[p].open
    /\ touched' = {}
    /\ channel' = [channel EXCEPT ![p].msgs = <<>>]
    /\ IF channel[p].msgs = <<>>
       THEN /\ recv' = [recv EXCEPT ![p] = "ChanErr"]
            /\ Return(p, Err("Channel error"))
       ELSE IF channel[p].msgs[1] = "Err"
       THEN /\ recv' = [recv EXCEPT ![p] = "MapErr"]
            /\ Return(p, Err("Buffer mapping failed"))
       ELSE /\ recv' = [recv EXCEPT ![p] = "Ok"]
            /\ pc' = [pc EXCEPT ![p] = "read"]
            /\ running' = p
            /\ UNCHANGED outcome
    /\ UNCHANGED << codec, wg, cz, rn, pipeline, overflow_checks, start_n, adapter, device,
                    hostVars, handleVars, gpuVars, readVars >>

\* lib.rs:209-210: get_mapped_range (which panics on a buffer that is not
\* mapped) and the cast of the view to u32 words
GetMappedRange(p) ==
    /\ Log(p, "read")
    /\ pc[p] = "read"
    /\ running = p
    /\ touched' = {<<p, staging_buffer[p]>>}
    /\ IF buffers[staging_buffer[p]].map = "Mapped"
       THEN /\ data' = [data EXCEPT ![p] = TRUE]
            /\ results' = [results EXCEPT ![p] = cast_slice(buffers[staging_buffer[p]].data)]
            /\ pc' = [pc EXCEPT ![p] = "decode"]
            /\ UNCHANGED << running, outcome >>
       ELSE /\ Return(p, Panic("buffer slice is not mapped"))
            /\ UNCHANGED << data, results >>
    /\ UNCHANGED << codec, wg, cz, rn, pipeline, overflow_checks, start_n, adapter, device, hostVars,
                    handleVars, gpuVars, mapVars, decoded, vec_results >>

\* the offset of record i counted in bytes
DecodeOffset_bytes(i) == i * 32

\* lib.rs:213 (main.rs:122): let offset = i * 5
DecodeOffset(i) == i * 5

\* lib.rs:214-221: one iteration of the decode loop, i counted from 0
DecodeOne(res, nums, i) ==
    LET offset == DecodeOffset(i)
        steps == res[offset + 1]
        max_parts == << res[offset + 2], res[offset + 3], res[offset + 4], res[offset + 5] >>
    IN [n |-> nums[i + 1], steps |-> steps, max_value |-> u32_array_to_u128(max_parts)]

\* lib.rs:212-226: the decode loop (an index past the end of the slice
\* panics)
Decode(p) ==
    /\ Log(p, "decode")
    /\ pc[p] = "decode"
    /\ running = p
    /\ touched' = {<<p, staging_buffer[p]>>}
    /\ LET count == Len(test_numbers[p])
       IN IF \A i \in 0..(count - 1) : DecodeOffset(i) + 4 < Len(results[p])
          THEN /\ decoded' = [decoded EXCEPT ![p] =
                     [k \in 1..count |-> DecodeOne(results[p], test_numbers[p], k - 1)]]
               /\ pc' = [pc EXCEPT ![p] = "to_vec"]
               /\ UNCHANGED << running, outcome >>
          ELSE /\ Return(p, Panic("index out of bounds"))
               /\ UNCHANGED decoded
    /\ UNCHANGED << codec, wg, cz, rn, pipeline, overflow_checks, start_n, adapter, device, hostVars,
                    handleVars, gpuVars, mapVars, data, results, vec_results >>

\* lib.rs:228: let vec_results = results.to_vec()
ToVec(p) ==
    /\ Log(p, "to_vec")
    /\ pc[p] = "to_vec"
    /\ running = p
    /\ touched' = {<<p, staging_buffer[p]>>}
    /\ vec_results' = [vec_results EXCEPT ![p] = results[p]]
    /\ pc' = [pc EXCEPT ![p] = "drop"]
    /\ UNCHANGED << codec, wg, cz, rn, pipeline, overflow_checks, running, start_n, adapter, device, outcome,
                    hostVars, handleVars, gpuVars, mapVars, data, results, decoded >>

\* lib.rs:230: drop(data)
DropView(p) ==
    /\ Log(p, "drop")
    /\ pc[p] = "drop"
    /\ running = p
    /\ touched' = {}
    /\ data' = [data EXCEPT ![p] = FALSE]
    /\ results' = [results EXCEPT ![p] = <<>>]
    /\ pc' = [pc EXCEPT ![p] = "unmap"]
    /\ UNCHANGED << codec, wg, cz, rn, pipeline, overflow_checks, running, start_n, adapter, device, outcome,
                    hostVars, handleVars, gpuVars, mapVars, decoded, vec_results >>

\* lib.rs:231: staging_buffer.unmap()
Unmap_skipped(p) ==
    /\ UNCHANGED trace
    /\ pc[p] = "unmap"
    /\ running = p
    /\ touched' = {}
    /\ pc' = [pc EXCEPT ![p] = "return"]
    /\ UNCHANGED << codec, wg, cz, rn, pipeline, overflow_checks, running, start_n, adapter, device, outcome,
                    hostVars, handleVars, gpuVars, mapVars, readVars >>

Unmap(p) ==
    /\ Log(p, "unmap")
    /\ pc[p] = "unmap"
    /\ running = p
    /\ touched' = {<<p, staging_buffer[p]>>}
    /\ buffers' = [buffers EXCEPT ![staging_buffer[p]].map = "Unmapped"]
    /\ pc' = [pc EXCEPT ![p] = "return"]
    /\ UNCHANGED << codec, wg, cz, rn, pipeline, overflow_checks, running, start_n, adapter, device, outcome,
                    hostVars, handleVars, bind_group, commands, submits, mapVars,
                    readVars >>

\* lib.rs:233: Ok(vec_results)
ReturnOk(p) ==
    /\ Log(p, "return")
    /\ pc[p] = "return"
    /\ running = p
    /\ touched' = {}
    /\ Return(p, Ok(vec_results[p]))
    /\ UNCHANGED << codec, wg, cz, rn, pipeline, overflow_checks, start_n, adapter, device, hostVars,
                    handleVars, gpuVars, mapVars, readVars >>

\* one step of the invocation p
Step(p) ==
    \/ Call(p)
    \/ AdapterResolved(p)
    \/ DeviceResolved(p)
    \/ ParseStart(p)
    \/ BuildRange(p)
    \/ EncodeInput(p)
    \/ AllocBuffers(p)
    \/ BuildPipeline(p)
    \/ RecordCommands(p)
    \/ Submit(p)
    \/ MapAsync(p)
    \/ MapCallback(p)
    \/ Poll(p)
    \/ Recv(p)
    \/ GetMappedRange(p)
    \/ Decode(p)
    \/ ToVec(p)
    \/ DropView(p)
    \/ Unmap(p)
    \/ ReturnOk(p)

Next == \E p \in Invocations : Step(p)

Spec == Init /\ [][Next]_vars

\* what happens to a call once it has requested the map: the thread runs
\* the call up to its await, the pending map completes (its callback runs
\* or is dropped), the executor resumes the call when the channel has
\* something for it, and the thread runs it to its return
Resume(p) ==
    \/ MapCallback(p)
    \/ Poll(p)
    \/ Recv(p)
    \/ GetMappedRange(p)
    \/ Decode(p)
    \/ ToVec(p)
    \/ DropView(p)
    \/ Unmap(p)
    \/ ReturnOk(p)

\* one call on the thread, under a scheduler that does not starve it once
\* it has requested the map
FairSpec == Init /\ [][Step(1)]_vars /\ WF_vars(Resume(1))

(***************************************************************************)
(* The standalone entry point run (main.rs:37-147): the same pipeline on   *)
(* a native device, for a fixed start and batch, written to a file.  It    *)
(* runs under pollster::block_on, one step after the other.                *)
(***************************************************************************)
\* main.rs:46: the batch starts at 1_u128 << 100
RunStart == << 0, 0, 0, 0, 0, 0, 16, 0 >>
\* main.rs:46 takes 1000000 candidates; the model runs the same code on a
\* batch of RunBatch candidates
RunBatch == 3

\* the state of the lib.rs invocations, which run leaves alone
invVars == << overflow_checks, pc, running, start_n, adapter, device, n,
              test_numbers, input_data, input_buffer, output_buffer,
              staging_buffer, buffers, bind_group, commands, submits, channel,
              recv, data, results, decoded, vec_results, outcome, touched,
              pipeline, trace >>

RunReady == [RunOff EXCEPT !.pc = "start"]

\* run moves to pc `to` having executed stage e
RunGoto(r, e, to) == [r EXCEPT !.pc = to, !.trace = Append(@, e)]
\* run panics in stage e
RunPanic(r, e, m) ==
    [r EXCEPT !.pc = "done", !.trace = Append(@, e), !.outcome = Panic(m)]

\* main.rs:38-42: request_adapter(..).await.unwrap()
RunRequestAdapter ==
    /\ rn.pc = "start"
    /\ \/ rn' = [RunGoto(rn, "adapter", "device") EXCEPT !.adapter = "ok"]
       \/ rn' = [RunPanic(rn, "adapter", "called Option::unwrap() on a None value")
                    EXCEPT !.adapter = "failed"]
    /\ UNCHANGED << codec, wg, cz, invVars >>

\* main.rs:43: request_device(..).await.unwrap()
RunRequestDevice ==
    /\ rn.pc = "device"
    /\ \/ rn' = [RunGoto(rn, "device", "range") EXCEPT !.device = "ok"]
       \/ rn' = [RunPanic(rn, "device", "called Result::unwrap() on an Err value")
                    EXCEPT !.device = "failed"]
    /\ UNCHANGED << codec, wg, cz, invVars >>

\* main.rs:46: ((1 << 100)..(1 << 100) + 1000000).collect()
RunBuildRange ==
    /\ rn.pc = "range"
    /\ rn' = [RunGoto(rn, "range", "encode") EXCEPT !.test_numbers =
                 RangeCollect(RunStart, Add128(RunStart, NatToU128(RunBatch)).val)]
    /\ UNCHANGED << codec, wg, cz, invVars >>

\* main.rs:49-52
RunEncodeInput ==
    /\ rn.pc = "encode"
    /\ rn' = [RunGoto(rn, "encode", "alloc") EXCEPT !.input_data =
                 FlatMapEncode(rn.test_numbers)]
    /\ UNCHANGED << codec, wg, cz, invVars >>

\* main.rs:54-75: the input, output and staging buffers
RunAllocBuffers ==
    /\ rn.pc = "alloc"
    /\ LET output_size == OutputSize(Len(rn.test_numbers))
       IN rn' = [RunGoto(rn, "alloc", "pipeline") EXCEPT
                    !.buffers = << NewBuffer(0, "Input Buffer", rn.input_data),
                                   NewBuffer(0, "Output Buffer", Zeroes(output_size)),
                                   NewBuffer(0, "Staging Buffer", Zeroes(output_size)) >>,
                    !.input_buffer = 1, !.output_buffer = 2, !.staging_buffer = 3]
    /\ UNCHANGED << codec, wg, cz, invVars >>

\* main.rs:78-98: shader module, pipeline and bind group.  On the native
\* backend a validation error of the shader or the pipeline goes to the
\* device's default error handler, which panics.
RunBuildPipeline ==
    /\ rn.pc = "pipeline"
    /\ \/ rn' = [RunGoto(rn, "pipeline", "record") EXCEPT
                    !.pipeline = "valid",
                    !.bind_group = <<rn.input_buffer, rn.output_buffer>>]
       \/ rn' = [RunPanic(rn, "pipeline", "wgpu error: Validation Error")
                    EXCEPT !.pipeline = "invalid"]
    /\ UNCHANGED << codec, wg, cz, invVars >>

\* main.rs:100-110: the compute pass and the copy
RunRecordCommands ==
    /\ rn.pc = "record"
    /\ LET num_workgroups == NumWorkgroups(NatToU32(Len(rn.test_numbers)))
       IN \E build \in {"on", "off"} :
             rn' = IF num_workgroups.overflow /\ build = "on"
                   THEN RunPanic(rn, "record", "attempt to add with overflow")
                   ELSE [RunGoto(rn, "record", "submit") EXCEPT !.commands =
                            CommandStream(rn.pipeline, rn.bind_group, num_workgroups.val,
                                          rn.output_buffer, rn.staging_buffer,
                                          OutputSize(Len(rn.test_numbers)))]
    /\ UNCHANGED << codec, wg, cz, invVars >>

\* main.rs:111: queue.submit(Some(encoder.finish()))
RunSubmit ==
    /\ rn.pc = "submit"
    /\ \E pad \in PadPatterns :
          rn' = [RunGoto(rn, "submit", "map_async") EXCEPT
                    !.buffers = ExecCommands(rn.buffers, rn.commands, pad),
                    !.submits = @ + 1]
    /\ UNCHANGED << codec, wg, cz, invVars >>

\* main.rs:113-114: buffer_slice.map_async(MapMode::Read, |_| {})
RunMapAsync ==
    /\ rn.pc = "map_async"
    /\ rn' = [RunGoto(rn, "map_async", "poll") EXCEPT
                 !.buffers[rn.staging_buffer].map = "MapRequested"]
    /\ UNCHANGED << codec, wg, cz, invVars >>

\* main.rs:115: device.poll(Maintain::Wait) waits for the submitted work
\* and runs the map callback, which throws the map result away
RunPoll ==
    /\ rn.pc = "poll"
    /\ \/ rn' = [RunGoto(rn, "poll", "read") EXCEPT
                    !.buffers[rn.staging_buffer].map = "Mapped"]
       \/ rn' = [RunGoto(rn, "poll", "read") EXCEPT
                    !.buffers[rn.staging_buffer].map = "MapFailed"]
    /\ UNCHANGED << codec, wg, cz, invVars >>

\* main.rs:117-118: get_mapped_range (which panics on a buffer that is not
\* mapped) and the cast to u32 words
RunGetMappedRange ==
    /\ rn.pc = "read"
    /\ IF rn.buffers[rn.staging_buffer].map = "Mapped"
       THEN rn' = [RunGoto(rn, "read", "decode") EXCEPT
                      !.data = TRUE,
                      !.results = cast_slice(rn.buffers[rn.staging_buffer].data)]
       ELSE rn' = RunPanic(rn, "read", "buffer slice is not mapped")
    /\ UNCHANGED << codec, wg, cz, invVars >>

\* main.rs:121-138: the decode loop, one line of output per candidate
RunDecode ==
    /\ rn.pc = "decode"
    /\ LET count == Len(rn.test_numbers)
       IN IF \A i \in 0..(count - 1) : DecodeOffset(i) + 4 < Len(rn.results)
          THEN rn' = [RunGoto(rn, "decode", "write") EXCEPT !.output =
                         [k \in 1..count |-> DecodeOne(rn.results, rn.test_numbers, k - 1)]]
          ELSE rn' = RunPanic(rn, "decode", "index out of bounds")
    /\ UNCHANGED << codec, wg, cz, invVars >>

\* main.rs:141-143: the output goes to collatz_results.txt
RunWriteFile ==
    /\ rn.pc = "write"
    /\ \/ rn' = [RunGoto(rn, "write", "drop") EXCEPT !.file = rn.output]
       \/ rn' = RunPanic(rn, "write", "Failed to create file")
    /\ UNCHANGED << codec, wg, cz, invVars >>

\* main.rs:145: drop(data)
RunDropView ==
    /\ rn.pc = "drop"
    /\ rn' = [RunGoto(rn, "drop", "unmap") EXCEPT !.data = FALSE, !.results = <<>>]
    /\ UNCHANGED << codec, wg, cz, invVars >>

\* main.rs:146: staging_buffer.unmap(), and run returns
RunUnmap ==
    /\ rn.pc = "unmap"
    /\ rn' = [RunGoto(rn, "unmap", "done") EXCEPT
                 !.buffers[rn.staging_buffer].map = "Unmapped",
                 !.outcome = Ok(<<>>)]
    /\ UNCHANGED << codec, wg, cz, invVars >>

RunNext ==
    \/ RunRequestAdapter
    \/ RunRequestDevice
    \/ RunBuildRange
    \/ RunEncodeInput
    \/ RunAllocBuffers
    \/ RunBuildPipeline
    \/ RunRecordCommands
    \/ RunSubmit
    \/ RunMapAsync
    \/ RunPoll
    \/ RunGetMappedRange
    \/ RunDecode
    \/ RunWriteFile
    \/ RunDropView
    \/ RunUnmap

\* the two entry points side by side, each on its own device: one call of
\* do_gpu_collatz and one execution of run
EntryInit ==
    /\ codec = CodecOff
    /\ wg = WgOff
    /\ cz = CzOff
    /\ rn = RunReady
    /\ IdleInvocations

EntryNext == Step(1) \/ RunNext

EntrySpec == EntryInit /\ [][EntryNext]_vars

(***************************************************************************)
(* The workgroup count on its own (lib.rs:184-185, main.rs:106-107), for   *)
(* candidate counts over the whole range of a u32.                         *)
(***************************************************************************)
\* the low and high limbs the counts are made of: around the multiples of
\* 64, the batch sizes 50_000 and 1_000_000 (15 * 2^16 + 16960), and the
\* counts next to 2^32
WgLowLimbs == {0, 1, 2, 63, 64, 65, 127, 128, 129, 16960,
               50000, Limb - 65, Limb - 64, Limb - 63, Limb - 2, LimbMax}
WgHighLimbs == {0, 1, 15, LimbMax}
WgCounts == { << lo, hi >> : lo \in WgLowLimbs, hi \in WgHighLimbs }

WgInit ==
    /\ \E c \in WgCounts : wg = [WgOff EXCEPT !.pc = "count", !.len = c]
    /\ codec = CodecOff
    /\ cz = CzOff
    /\ rn = RunOff
    /\ IdleInvocations

\* let num_workgroups = (len as u32 + workgroup_size - 1) / workgroup_size;
\* an overflowing u32 operation panics in a build with overflow checks
\* and wraps in a build without them
WgCompute ==
    /\ wg.pc = "count"
    /\ LET r == NumWorkgroups(wg.len)
       IN \E build \in {"on", "off"} :
             wg' = IF r.overflow /\ build = "on"
                   THEN [wg EXCEPT !.pc = "done", !.outcome = "panic"]
                   ELSE [wg EXCEPT !.pc = "done", !.outcome = "ok",
                                   !.num_workgroups = r.val]
    /\ UNCHANGED << codec, cz, rn, invVars >>

WgNext == WgCompute

WorkgroupSpec == WgInit /\ [][WgNext]_vars

(***************************************************************************)
(* The host function collatz (main.rs:149-164) on its own, one loop        *)
(* iteration per step.                                                     *)
(***************************************************************************)
\* the arguments it is called with: 1 .. CollatzMaxArg
CollatzMaxArg == 27

\* a u128 that fits a model integer, as that integer
U128ToNat(v) == v[1] + Limb * v[2]

CzInit ==
    /\ \E a \in 1..CollatzMaxArg : cz = [CzOff EXCEPT !.pc = "call", !.arg = a]
    /\ codec = CodecOff
    /\ wg = WgOff
    /\ rn = RunOff
    /\ IdleInvocations

\* main.rs:150-151 with max starting at 0
CzCall_max_zero ==
    /\ cz.pc = "call"
    /\ cz' = [cz EXCEPT !.pc = "loop", !.n = NatToU128(cz.arg), !.steps = Zero128,
                        !.max = Zero128, !.visited = << cz.arg >>]
    /\ UNCHANGED << codec, wg, rn, invVars >>

\* main.rs:149-151: let mut steps = 0; let mut max = n
CzCall ==
    /\ cz.pc = "call"
    /\ cz' = [cz EXCEPT !.pc = "loop", !.n = NatToU128(cz.arg), !.steps = Zero128,
                        !.max = NatToU128(cz.arg), !.visited = << cz.arg >>]
    /\ UNCHANGED << codec, wg, rn, invVars >>

\* main.rs:153-161: one iteration of `while n != 1`.  3 * n + 1 and
\* steps += 1 are u128 operations: on overflow a build with overflow
\* checks panics and a build without them wraps.
CzIterate ==
    /\ cz.pc = "loop"
    /\ cz.n # One128
    /\ LET even == cz.n[1] % 2 = 0
           odd == MulAdd128(cz.n, 3, 1)
           nx == IF even THEN Half128(cz.n) ELSE odd.val
           inc == Add128(cz.steps, One128)
           overflow == (~even /\ odd.overflow) \/ inc.overflow
       IN \E build \in {"on", "off"} :
             /\ cz' = IF overflow /\ build = "on"
                      THEN [cz EXCEPT !.pc = "done", !.outcome = "panic"]
                      ELSE [cz EXCEPT !.n = nx,
                                      !.max = IF Lt128(cz.max, nx) THEN nx ELSE cz.max,
                                      !.steps = inc.val,
                                      !.visited = Append(@, U128ToNat(nx))]
    /\ UNCHANGED << codec, wg, rn, invVars >>

\* main.rs:153, 163: the loop ends at n == 1 and (steps, max) is returned
CzReturn ==
    /\ cz.pc = "loop"
    /\ cz.n = One128
    /\ cz' = [cz EXCEPT !.pc = "done", !.outcome = "ok"]
    /\ UNCHANGED << codec, wg, rn, invVars >>

CzNext == CzCall \/ CzIterate \/ CzReturn

\* the function runs on: a loop that can take a step takes it
CollatzSpec == CzInit /\ [][CzNext]_vars /\ WF_vars(CzNext)

(***************************************************************************)
(* The codec on its own: a 128-bit value is encoded to words, the words    *)
(* to bytes, and both are decoded again (lib.rs:9-35, and the same three   *)
(* functions in main.rs:5-31).                                             *)
(***************************************************************************)
\* limbs the values are made of: 0x0000, 0x80FF, 0xFFFF
LimbSamples == {0, 33023, LimbMax}

CodecValues ==
    { << a, b, c, d, e, f, g, h >> :
        a \in LimbSamples, b \in LimbSamples, c \in LimbSamples, d \in LimbSamples,
        e \in LimbSamples, f \in LimbSamples, g \in LimbSamples, h \in LimbSamples }

mainVars == << overflow_checks, pc, running, start_n, adapter, device, n,
               test_numbers, input_data, input_buffer, output_buffer,
               staging_buffer, buffers, bind_group, commands, submits, channel,
               recv, data, results, decoded, vec_results, outcome, touched,
               pipeline, trace, wg, cz, rn >>

CodecInit ==
    /\ \E x \in CodecValues : codec = [CodecOff EXCEPT !.pc = "value", !.v = x]
    /\ wg = WgOff
    /\ cz = CzOff
    /\ rn = RunOff
    /\ IdleInvocations

\* u128_to_u32_array(v)
CodecEncodeWords ==
    /\ codec.pc = "value"
    /\ codec' = [codec EXCEPT !.pc = "words", !.words = u128_to_u32_array(codec.v)]
    /\ UNCHANGED mainVars

\* u32_array_to_bytes(&words)
CodecEncodeBytes ==
    /\ codec.pc = "words"
    /\ codec' = [codec EXCEPT !.pc = "bytes", !.bytes = u32_array_to_bytes(codec.words)]
    /\ UNCHANGED mainVars

\* u32_array_to_u128 of the words, and of the bytes read back as words
CodecDecode ==
    /\ codec.pc = "bytes"
    /\ codec' = [codec EXCEPT !.pc = "decoded",
                              !.back = u32_array_to_u128(codec.words),
                              !.back_bytes = u32_array_to_u128(cast_slice(codec.bytes))]
    /\ UNCHANGED mainVars

CodecNext == CodecEncodeWords \/ CodecEncodeBytes \/ CodecDecode

CodecSpec == CodecInit /\ [][CodecNext]_vars

\* (v >> (8 * k)) & 0xFF, for k in 0..15
ByteOf(v, k) == (v[(k \div 2) + 1] \div (IF k % 2 = 0 THEN 1 ELSE 256)) % 256

\* C4: for every 128-bit value v, decoding the encoded words gives v back,
\* the 16 bytes are the little-endian bytes of v (byte k is the k-th byte
\* of v), and the bytes read back as 4 little-endian words decode to v.
C4_CodecRoundTrip ==
    codec.pc = "decoded" =>
        /\ codec.back = codec.v
        /\ Len(codec.bytes) = 16
        /\ \A k \in 0..15 : codec.bytes[k + 1] = ByteOf(codec.v, k)
        /\ codec.back_bytes = codec.v

\* the maximum value 2^128 - 1 has been encoded and decoded
C4_Witness ==
    /\ codec.pc = "decoded"
    /\ codec.v = Max128
    /\ codec.back = Max128

(***************************************************************************)
(* Properties of do_gpu_collatz                                            *)
(***************************************************************************)
\* the bytes of p's staging buffer
StagingData(p) == buffers[staging_buffer[p]].data

\* the little-endian u32 at bytes [off, off + 4) and the little-endian
\* u128 at bytes [off, off + 16) of a byte sequence (off counted from 0)
LeU32At(bytes, off) ==
    << bytes[off + 1] + 256 * bytes[off + 2], bytes[off + 3] + 256 * bytes[off + 4] >>
LeU128At(bytes, off) ==
    LET at(j) == bytes[off + 2 * j - 1] + 256 * bytes[off + 2 * j]
    IN Tup128(at)

\* the logical fields of the 32-byte output record i
RecordSteps(bytes, i) == LeU32At(bytes, 32 * i)
RecordMax(bytes, i) == LeU128At(bytes, 32 * i + 4)

\* the decode loop of p has run to its end
DecodeDone(p) ==
    \/ pc[p] \in {"to_vec", "drop", "unmap", "return"}
    \/ pc[p] = "done" /\ outcome[p].kind = "Ok"

\* C1: for every record index i the decode loop takes steps from bytes
\* [32i, 32i+4) and max_value from bytes [32i+4, 32i+20) of the mapped
\* staging range, and pairs them with the i-th candidate; padding bytes
\* contribute to no decoded value.
C1_DecodeReadsRecord ==
    \A p \in Invocations :
        DecodeDone(p) =>
            /\ Len(decoded[p]) = Len(test_numbers[p])
            /\ \A i \in 0..(Len(test_numbers[p]) - 1) :
                  /\ decoded[p][i + 1].n = test_numbers[p][i + 1]
                  /\ decoded[p][i + 1].steps = RecordSteps(StagingData(p), i)
                  /\ decoded[p][i + 1].max_value = RecordMax(StagingData(p), i)

\* C2: on success the returned sequence has exactly 5 words per candidate,
\* words [5i, 5i+5) being the steps word and the 4 max_value words of
\* candidate i, with no padding word in it.
C2_ReturnsFiveWordsPerCandidate ==
    \A p \in Invocations :
        (pc[p] = "done" /\ outcome[p].kind = "Ok") =>
            LET v == outcome[p].value
                count == Len(test_numbers[p])
            IN /\ Len(v) = 5 * count
               /\ \A i \in 0..(count - 1) :
                     /\ v[5 * i + 1] = RecordSteps(StagingData(p), i)
                     /\ << v[5 * i + 2], v[5 * i + 3], v[5 * i + 4], v[5 * i + 5] >>
                            = u128_to_u32_array(RecordMax(StagingData(p), i))

ParseFailed(p) == pc[p] = "done" /\ outcome[p] = Err("Could not parse n")

\* no buffer was created for p, nothing was bound, recorded or submitted
NoBufferWork(p) ==
    /\ input_buffer[p] = 0 /\ output_buffer[p] = 0 /\ staging_buffer[p] = 0
    /\ \A b \in DOMAIN buffers : buffers[b].owner # p
    /\ bind_group[p] = <<0, 0>>
    /\ commands[p] = <<>>
    /\ submits[p] = 0
    /\ ~channel[p].open

\* C3 as stated: when the parse failure is reported, no adapter, device,
\* queue or buffer has been requested or allocated by the invocation.
C3_ParseErrorBeforeAnyGpuResource ==
    \A p \in Invocations :
        ParseFailed(p) =>
            /\ adapter[p] = "none"
            /\ device[p] = "none"
            /\ NoBufferWork(p)

\* C3 as amended: an unparseable start string never gets past the parse:
\* the call ends in Err, and in the parse error once adapter and device
\* were obtained; when the parse failure is reported the adapter and the
\* device/queue have been requested and obtained, and no buffer has been
\* created and nothing bound, recorded or submitted.
C3_ParseErrorBeforeBuffers ==
    \A p \in Invocations :
        /\ ParseFailed(p) =>
              /\ ~parse_u128(start_n[p]).ok
              /\ adapter[p] = "ok"
              /\ device[p] = "ok"
              /\ NoBufferWork(p)
        /\ (pc[p] # "idle" /\ ~parse_u128(start_n[p]).ok) =>
              /\ NoBufferWork(p)
              /\ pc[p] \in {"await_adapter", "await_device", "parse", "done"}
              /\ pc[p] = "done" => outcome[p].kind = "Err"
              /\ (pc[p] = "done" /\ device[p] = "ok") => ParseFailed(p)

\* a non-numeric start was reported as a parse error
C3_Witness ==
    \E p \in Invocations : ParseFailed(p) /\ start_n[p] = S_abc

\* line 112 has been executed by p
RangeBuilt(p) ==
    /\ device[p] = "ok"
    /\ parse_u128(start_n[p]).ok
    /\ pc[p] \notin {"idle", "await_adapter", "await_device", "parse", "range"}

\* C5: when start + RANGE - 1 <= 2^128 - 1, the candidate sequence has
\* exactly RANGE elements and its i-th element is start + i (this includes
\* start + RANGE = 2^128).
C5_RangeIsConsecutive ==
    \A p \in Invocations :
        (RangeBuilt(p) /\ ~Add128(n[p], NatToU128(RANGE - 1)).overflow) =>
            /\ outcome[p].kind # "Panic"
            /\ Len(test_numbers[p]) = RANGE
            /\ \A i \in 0..(RANGE - 1) :
                  test_numbers[p][i + 1] = Add128(n[p], NatToU128(i)).val

\* the transitions of a buffer's map state
MapTransitions ==
    { <<"Idle", "MapRequested">>, <<"MapRequested", "Mapped">>,
      <<"MapRequested", "MapFailed">>, <<"Mapped", "Unmapped">> }

\* p holds or is about to take the mapped view of its staging buffer
ReadingStaging(p) == data[p] \/ pc[p] \in {"read", "decode", "to_vec", "drop"}

\* C6: a staging buffer only moves Idle -> MapRequested -> (Mapped |
\* MapFailed) and Mapped -> Unmapped; its mapped range is read only after
\* the channel yielded a successful map result, never in MapRequested or
\* MapFailed; unmap happens only after the decode loop has finished and
\* the view has been dropped.
C6_MapStateMachine ==
    [][ /\ \A b \in DOMAIN buffers' :
              IF b \in DOMAIN buffers
              THEN \/ buffers'[b].map = buffers[b].map
                   \/ <<buffers[b].map, buffers'[b].map>> \in MapTransitions
              ELSE buffers'[b].map = "Idle"
        /\ \A p \in Invocations :
              /\ ReadingStaging(p)' =>
                    /\ recv'[p] = "Ok"
                    /\ buffers'[staging_buffer'[p]].map = "Mapped"
              /\ ( /\ staging_buffer[p] # 0
                   /\ buffers[staging_buffer[p]].map # "Unmapped"
                   /\ buffers'[staging_buffer[p]].map = "Unmapped" ) =>
                    /\ pc[p] = "unmap"
                    /\ ~data[p]
                    /\ Len(decoded[p]) = Len(test_numbers[p])
                    /\ vec_results[p] = cast_slice(StagingData(p))
      ]_vars

\* a staging buffer was mapped, read and unmapped, while the other
\* invocation's map failed
C6_Witness ==
    \E p, q \in Invocations :
        /\ pc[p] = "return"
        /\ buffers[staging_buffer[p]].map = "Unmapped"
        /\ Len(vec_results[p]) > 0
        /\ staging_buffer[q] # 0
        /\ buffers[staging_buffer[q]].map = "MapFailed"

\* a stage of the call has run for p
AfterAlloc(p) == staging_buffer[p] # 0

\* C7: every invocation ends in Ok carrying the results of all RANGE
\* candidates or in Err with a message; the named failures yield Err,
\* never a panic or a partial result, and after a failing stage no later
\* stage is executed.
C7_OkOrErr ==
    \A p \in Invocations :
        pc[p] = "done" =>
            /\ outcome[p].kind \in {"Ok", "Err"}
            /\ outcome[p].kind = "Ok" =>
                  /\ Len(decoded[p]) = RANGE
                  /\ Len(outcome[p].value) = Len(StagingData(p)) \div 4
            /\ outcome[p].kind = "Err" => outcome[p].msg # ""
            /\ adapter[p] = "failed" =>
                  outcome[p].kind = "Err" /\ device[p] = "none" /\ NoBufferWork(p)
            /\ device[p] = "failed" => outcome[p].kind = "Err" /\ NoBufferWork(p)
            /\ (device[p] = "ok" /\ ~parse_u128(start_n[p]).ok) =>
                  outcome[p].kind = "Err" /\ NoBufferWork(p)
            /\ recv[p] \in {"ChanErr", "MapErr"} =>
                  outcome[p].kind = "Err" /\ ~data[p] /\ decoded[p] = <<>>

\* C8: when the call has returned, the staging buffer is not left Mapped:
\* it was never successfully mapped, or it has been unmapped.
C8_NotLeftMapped ==
    \A p \in Invocations :
        (pc[p] = "done" /\ AfterAlloc(p)) =>
            \/ /\ buffers[staging_buffer[p]].map = "Unmapped"
               /\ recv[p] = "Ok"
            \/ /\ buffers[staging_buffer[p]].map \in {"Idle", "MapRequested", "MapFailed"}
               /\ recv[p] # "Ok"
               /\ outcome[p].kind # "Ok"

\* one call returned Ok after unmapping, another returned a mapping error
C8_Witness ==
    \E p, q \in Invocations :
        /\ pc[p] = "done" /\ outcome[p].kind = "Ok"
        /\ buffers[staging_buffer[p]].map = "Unmapped"
        /\ pc[q] = "done" /\ outcome[q] = Err("Buffer mapping failed")
        /\ AfterAlloc(q)

\* C9: two invocations with the same start string return identical
\* sequences, whatever the padding bytes of the output records hold.
C9_SameStartSameResult ==
    \A p, q \in Invocations :
        ( /\ pc[p] = "done" /\ outcome[p].kind = "Ok"
          /\ pc[q] = "done" /\ outcome[q].kind = "Ok"
          /\ start_n[p] = start_n[q] ) =>
            outcome[p].value = outcome[q].value

\* the buffers p holds handles to
Handles(p) == {input_buffer[p], output_buffer[p], staging_buffer[p]} \ {0}

\* the candidates of a call with start string s when nothing else runs
AloneCandidates(s) ==
    LET start == parse_u128(s).val
    IN IF Add128(start, NatToU128(RANGE)).overflow THEN <<>>
       ELSE [k \in 1..RANGE |-> Add128(start, NatToU128(k - 1)).val]

\* the 5 meaningful words the kernel produces for candidate v
KernelWords(v) == <<KernelRecord(v).steps>> \o u128_to_u32_array(KernelRecord(v).max_value)

\* C10: the buffers, the bind group and the commands of one invocation
\* are used by that invocation only, and what an invocation returns is what
\* it returns when it runs alone: the kernel's results for its own
\* candidates, or the failure of its own stage.
C10_Isolation ==
    /\ \A t \in touched : t[2] \in DOMAIN buffers /\ buffers[t[2]].owner = t[1]
    /\ \A p \in Invocations :
          /\ \A b \in Handles(p) : buffers[b].owner = p
          /\ \A q \in Invocations \ {p} : Handles(p) \cap Handles(q) = {}
          /\ \A j \in 1..2 : bind_group[p][j] # 0 => bind_group[p][j] \in Handles(p)
          /\ \A j \in 1..Len(commands[p]) : CommandBuffers(commands[p][j]) \subseteq Handles(p)
          /\ (pc[p] = "done" /\ outcome[p].kind = "Ok") =>
                LET mine == AloneCandidates(start_n[p])
                IN /\ parse_u128(start_n[p]).ok
                   /\ Len(outcome[p].value) = 8 * Len(mine)
                   /\ \A i \in 0..(Len(mine) - 1) :
                         SubSeq(outcome[p].value, 8 * i + 1, 8 * i + 5)
                            = IF pipeline[p] = "valid" THEN KernelWords(mine[i + 1])
                              ELSE << <<0, 0>>, <<0, 0>>, <<0, 0>>, <<0, 0>>, <<0, 0>> >>
          /\ ParseFailed(p) => ~parse_u128(start_n[p]).ok

\* both invocations were in flight together: invocation 1 created its
\* buffers first and still waits for its map, invocation 2 created its
\* buffers after that and has returned Ok for another start
C10_Witness ==
    /\ pc[1] = "await_recv" /\ start_n[1] = S_one
    /\ Handles(1) = {1, 2, 3}
    /\ pc[2] = "done" /\ outcome[2].kind = "Ok" /\ start_n[2] = S_7
    /\ Handles(2) = {4, 5, 6}
    /\ Len(outcome[2].value) = 8 * RANGE

(***************************************************************************)
(* Properties of the two entry points (EntrySpec)                          *)
(***************************************************************************)
\* the stages of S in a trace, in the order they were executed
Project(t, S) == SelectSeq(t, LAMBDA e : e \in S)
IsPrefix(a, b) == Len(a) <= Len(b) /\ a = SubSeq(b, 1, Len(a))

\* cmds is one compute pass (set pipeline, set bind group 0, one dispatch
\* with Y = Z = 1) that ends before one copy of `size` bytes from offset 0
\* of `out` to offset 0 of `staging`
IsPassThenCopy(cmds, out, staging, size) ==
    /\ Len(cmds) = 6
    /\ [j \in 1..6 |-> cmds[j].op]
          = << "begin_compute_pass", "set_pipeline", "set_bind_group",
               "dispatch_workgroups", "end_compute_pass", "copy_buffer_to_buffer" >>
    /\ cmds[3].index = 0
    /\ cmds[4].y = 1 /\ cmds[4].z = 1
    /\ cmds[6].src = out /\ cmds[6].src_offset = 0
    /\ cmds[6].dst = staging /\ cmds[6].dst_offset = 0
    /\ cmds[6].size = size

\* record, submit and map request happen in this order, the submit once
SubmitOnce(t, cmds, nsubmits, stagingMap) ==
    /\ IsPrefix(Project(t, {"record", "submit", "map_async"}),
                << "record", "submit", "map_async" >>)
    /\ nsubmits = Len(Project(t, {"submit"}))
    /\ nsubmits = 1 => cmds # <<>>
    /\ stagingMap # "Idle" => nsubmits = 1

\* C11: in do_gpu_collatz and in run, the recorded command stream is one
\* compute pass (set pipeline, set bind group, one dispatch) that ends
\* before the single copy of the whole output buffer to the staging buffer
\* at offset 0; queue.submit is called exactly once, after the stream is
\* recorded and before the map request on the staging buffer.
C11_OnePassOneCopyOneSubmit ==
    /\ \A p \in Invocations :
          /\ commands[p] # <<>> =>
                IsPassThenCopy(commands[p], output_buffer[p], staging_buffer[p],
                               Len(buffers[output_buffer[p]].data))
          /\ SubmitOnce(trace[p], commands[p], submits[p],
                        IF staging_buffer[p] = 0 THEN "Idle"
                        ELSE buffers[staging_buffer[p]].map)
    /\ rn.commands # <<>> =>
          IsPassThenCopy(rn.commands, rn.output_buffer, rn.staging_buffer,
                         Len(rn.buffers[rn.output_buffer].data))
    /\ SubmitOnce(rn.trace, rn.commands, rn.submits,
                  IF rn.staging_buffer = 0 THEN "Idle"
                  ELSE rn.buffers[rn.staging_buffer].map)

\* both entry points have submitted their stream and requested the map
C11_Witness ==
    /\ pc[1] = "poll" /\ submits[1] = 1
    /\ buffers[staging_buffer[1]].map = "MapRequested"
    /\ rn.pc = "poll" /\ rn.submits = 1
    /\ rn.buffers[rn.staging_buffer].map = "MapRequested"

\* C12: in do_gpu_collatz the device poll comes after the map request and
\* before the call suspends on the channel, and (the pending map callback
\* being run or dropped) every call that has requested the map eventually
\* sees the staging buffer leave MapRequested and returns.
C12_MapRequestCompletes ==
    /\ [](\A p \in Invocations :
            /\ IsPrefix(Project(trace[p], {"map_async", "poll", "recv"}),
                        << "map_async", "poll", "recv" >>)
            /\ pc[p] = "await_recv" => Project(trace[p], {"map_async", "poll"})
                                          = << "map_async", "poll" >>)
    /\ \A p \in Invocations :
          (pc[p] \in {"poll", "await_recv"})
             ~> ( /\ pc[p] = "done"
                  /\ staging_buffer[p] # 0
                  /\ buffers[staging_buffer[p]].map \in {"Mapped", "MapFailed", "Unmapped"} )

\* a call was suspended on the channel with the map still pending, the
\* map completed while it was suspended, and it was resumed and returned
C12_Witness ==
    \E p \in Invocations :
        /\ pc[p] = "done" /\ recv[p] = "Ok" /\ outcome[p].kind = "Ok"
        /\ Project(trace[p], {"map_async", "poll", "recv"}) = << "map_async", "poll", "recv" >>
        /\ buffers[staging_buffer[p]].map = "Unmapped"

\* C13: when shader compilation or compute-pipeline creation fails, the
\* invocation is aborted and reports the failure to its caller: no bind
\* group is built, no dispatch is recorded and no command stream is
\* submitted after the failure.
C13_PipelineFailureAborts ==
    \A p \in Invocations :
        pipeline[p] = "invalid" =>
            /\ pc[p] = "done"
            /\ outcome[p].kind = "Err"
            /\ bind_group[p] = <<0, 0>>
            /\ commands[p] = <<>>
            /\ submits[p] = 0

(***************************************************************************)
(* Properties of the workgroup count (WorkgroupSpec)                       *)
(***************************************************************************)
\* w * 64 for a u32 w, at a width that holds it
Times64(w) == MulAdd128(AsU128(w), workgroup_size, 0).val

C15_OutputAndStagingSizes ==
    \A p \in Invocations :
        AfterAlloc(p) =>
            LET count == Len(test_numbers[p])
                out == Len(buffers[output_buffer[p]].data)
                stg == Len(buffers[staging_buffer[p]].data)
            IN /\ out = stg
               /\ out = count * 32
               /\ out % 32 = 0
               /\ commands[p] # <<>> =>
                     \A j \in 1..Len(commands[p]) :
                        commands[p][j].op = "copy_buffer_to_buffer" =>
                           /\ commands[p][j].size = out
                           /\ commands[p][j].src = output_buffer[p]
                           /\ commands[p][j].dst = staging_buffer[p]

\* a full batch was allocated and its copy recorded
C15_Witness ==
    \E p \in Invocations :
        /\ pc[p] = "submit"
        /\ Len(test_numbers[p]) = RANGE
        /\ Len(buffers[staging_buffer[p]].data) = RANGE * 32

\* C16: the input buffer holds count * 16 bytes, and for every i < count
\* its bytes [16i, 16i + 16) are the little-endian bytes of the i-th
\* candidate start + i.
C16_InputBufferLayout ==
    \A p \in Invocations :
        input_buffer[p] # 0 =>
            LET count == Len(test_numbers[p])
                bytes == buffers[input_buffer[p]].data
            IN /\ Len(bytes) = count * 16
               /\ \A i \in 0..(count - 1) :
                     LET candidate == Add128(n[p], NatToU128(i)).val
                     IN \A k \in 0..15 : bytes[16 * i + k + 1] = ByteOf(candidate, k)

\* the batch starting at 6 (given as "+6") went through the input buffer
\* and the kernel
C16_Witness ==
    \E p \in Invocations :
        /\ start_n[p] = S_plus6
        /\ pc[p] = "done" /\ outcome[p].kind = "Ok"
        /\ Len(buffers[input_buffer[p]].data) = RANGE * 16

(***************************************************************************)
(* The two entry points compared (EntrySpec)                               *)
(***************************************************************************)
\* the core steps, in the order of the pipeline
CoreSequence ==
    << "alloc", "record", "submit", "map_async", "poll", "recv", "read",
       "decode", "unmap" >>
CoreStages == {CoreSequence[j] : j \in 1..Len(CoreSequence)}

\* C17: run and do_gpu_collatz execute the same core step sequence with
\* the same obligations: allocate buffers, record pass and copy, submit
\* once, request the map, poll, obtain the map completion result and read
\* only on success, decode, unmap; a call of either that returns normally
\* has executed all of them.
C17_SameCoreSequence ==
    /\ \A p \in Invocations :
          /\ IsPrefix(Project(trace[p], CoreStages), CoreSequence)
          /\ (pc[p] = "done" /\ outcome[p].kind = "Ok") =>
                Project(trace[p], CoreStages) = CoreSequence
    /\ IsPrefix(Project(rn.trace, CoreStages), CoreSequence)
    /\ (rn.pc = "done" /\ rn.outcome.kind = "Ok") =>
          Project(rn.trace, CoreStages) = CoreSequence

(***************************************************************************)
(* Properties of the host function collatz (CollatzSpec)                   *)
(***************************************************************************)
\* the Collatz map on the natural numbers
CollatzMap(x) == IF x % 2 = 0 THEN x \div 2 ELSE 3 * x + 1

\* t is the Collatz trace of a: it starts at a, each value is the Collatz
\* map of the one before it, and it stops at the first 1
IsCollatzTraceOf(t, a) ==
    /\ Len(t) >= 1
    /\ t[1] = a
    /\ t[Len(t)] = 1
    /\ \A j \in 1..(Len(t) - 1) : t[j] # 1 /\ t[j + 1] = CollatzMap(t[j])

\* C18: collatz(n) terminates for every n in 1 .. CollatzMaxArg and
\* returns (steps, max) of the Collatz trace of n: steps is the number of
\* steps to 1 and max the largest value visited, n included (so max >= n);
\* (0, 1) for 1, (8, 16) for 6, (111, 9232) for 27.
C18_HostCollatz ==
    /\ [](cz.pc = "done" =>
            /\ cz.outcome = "ok"
            /\ IsCollatzTraceOf(cz.visited, cz.arg)
            /\ cz.steps = NatToU128(Len(cz.visited) - 1)
            /\ \E j \in 1..Len(cz.visited) : cz.max = NatToU128(cz.visited[j])
            /\ \A j \in 1..Len(cz.visited) : cz.visited[j] <= U128ToNat(cz.max)
            /\ U128ToNat(cz.max) >= cz.arg
            /\ cz.arg = 1 => cz.steps = NatToU128(0) /\ cz.max = NatToU128(1)
            /\ cz.arg = 6 => cz.steps = NatToU128(8) /\ cz.max = NatToU128(16)
            /\ cz.arg = 27 => cz.steps = NatToU128(111) /\ cz.max = NatToU128(9232))
    /\ <>(cz.pc = "done")

\* collatz(27) has returned (111, 9232)
C18_Witness ==
    /\ cz.pc = "done"
    /\ cz.arg = 27
    /\ cz.steps = NatToU128(111)
    /\ cz.max = NatToU128(9232)

(***************************************************************************)
(* Properties of the decode loops and of the completion channel            *)
(***************************************************************************)
\* every word index of the decode loop over `count` candidates lies in a
\* slice of `words` words
IndicesInBounds(count, words) ==
    /\ words = count * 8
    /\ \A i \in 0..(count - 1) :
          \A j \in 0..4 : DecodeOffset(i) + j < words

\* C19: in the decode loops of do_gpu_collatz and run, every word index
\* i * 5 .. i * 5 + 4 (i < count) is less than the number of u32 words of
\* the mapped staging range, count * 8: decoding never indexes out of
\* bounds.
C19_DecodeIndicesInBounds ==
    /\ \A p \in Invocations :
          /\ data[p] => IndicesInBounds(Len(test_numbers[p]), Len(results[p]))
          /\ outcome[p] # Panic("index out of bounds")
    /\ rn.data => IndicesInBounds(Len(rn.test_numbers), Len(rn.results))
    /\ rn.outcome # Panic("index out of bounds")

\* both decode loops have run over a full batch
C19_Witness ==
    /\ pc[1] = "to_vec" /\ Len(decoded[1]) = RANGE
    /\ rn.pc = "write" /\ Len(rn.output) = RunBatch

\* C20: the map callback sends at most one message on the channel of
\* capacity 1; the receiver gets the map result the callback was called
\* with, or a channel error when the callback was dropped without being
\* called, and then the call returns Err: a call suspended on the channel
\* can be resumed as soon as the callback has run or was dropped.
C20_ChannelCarriesMapResult ==
    \A p \in Invocations :
        /\ Len(channel[p].msgs) <= 1
        /\ channel[p].msgs # <<>> => channel[p].msgs[1] = channel[p].callback
        /\ channel[p].open <=> channel[p].callback = "pending"
        /\ recv[p] = "Ok" => channel[p].callback = "Ok"
        /\ recv[p] = "MapErr" =>
              channel[p].callback = "Err" /\ outcome[p] = Err("Buffer mapping failed")
        /\ recv[p] = "ChanErr" =>
              channel[p].callback = "dropped" /\ outcome[p] = Err("Channel error")
        /\ (pc[p] = "done" /\ channel[p].callback = "dropped") => recv[p] = "ChanErr"
        /\ (pc[p] = "await_recv" /\ channel[p].callback # "pending") =>
              channel[p].msgs # <<>> \/ ~channel[p].open
        /\ channel[p].callback = "Ok" <=>
              (staging_buffer[p] # 0
                 /\ buffers[staging_buffer[p]].map \in {"Mapped", "Unmapped"})

\* one call received the Ok the callback sent, the other a channel error
\* because its callback was dropped
C20_Witness ==
    \E p, q \in Invocations :
        /\ recv[p] = "Ok" /\ channel[p].callback = "Ok"
        /\ recv[q] = "ChanErr" /\ pc[q] = "done" /\ outcome[q] = Err("Channel error")

====
